---- MODULE Spec2Model ----
(***************************************************************************)
(* Model of extract_office_attachments.py: the signature classifier        *)
(* (detect_format), the packaged-object decoder (parse_ole10native), the   *)
(* output namer (unique_path), the per-item processor (process_embedding)  *)
(* and the orchestrator loop (extract_attachments).                        *)
(*                                                                         *)
(* Bytes are integers 0..255.  File and entry names are sequences of       *)
(* one-character strings.  POSIX path semantics (pathlib.PurePosixPath).   *)
(***************************************************************************)
EXTENDS Integers, Sequences, FiniteSets, TLC

VARIABLES
    \* ---- extract_attachments run ----
    listing,      \* zf.namelist() with each entry's content, in archive order
    valid,        \* the source passes the extension and is_zipfile checks
    fs,           \* output directory: file name -> bytes
    pc,           \* position of extract_attachments
    candidates,   \* indices of listing selected at line 260
    idx,          \* number of candidates the for loop has finished
    results,      \* the results list
    log,          \* one record per pass of the loop body, oldest first
    \* ---- parse_ole10native call ----
    pin,          \* the fields the stream under test was built from
    stream,       \* stream_data
    pres,         \* the returned (filename, raw)
    \* ---- detect_format call ----
    buf,          \* data
    tag           \* the returned ext, or "None"

vars == <<listing, valid, fs, pc, candidates, idx, results, log,
          pin, stream, pres, buf, tag>>
runVars == <<listing, valid, fs, pc, candidates, idx, results, log>>
parseVars == <<pin, stream, pres>>
detectVars == <<buf, tag>>

\* ------------------------------------------------------------------------
\* Bounds of the model
\* ------------------------------------------------------------------------
MaxEntries == 2     \* entries in the archive listing
MaxPayload == 2     \* bytes that follow the data_size field
MaxDeclared == 3    \* largest declared data_size
MaxTail == 1        \* bytes appended after a signature under test

\* ------------------------------------------------------------------------
\* Generic sequence helpers (Python slicing and searching)
\* ------------------------------------------------------------------------
Min(a, b) == IF a < b THEN a ELSE b

\* s[a:b] with 0-based a and b, clamped the way Python clamps a slice
Slice(s, a, b) ==
    LET lo == Min(a, Len(s))
        hi == Min(b, Len(s))
    IN  IF hi <= lo THEN <<>> ELSE SubSeq(s, lo + 1, hi)

\* s.startswith(p)
StartsWith(s, p) == Len(s) >= Len(p) /\ SubSeq(s, 1, Len(p)) = p

\* s.endswith(p)
EndsWith(s, p) ==
    Len(s) >= Len(p) /\ SubSeq(s, Len(s) - Len(p) + 1, Len(s)) = p

\* Python None and a present value
None == [none |-> TRUE]
Some(x) == [none |-> FALSE, val |-> x]

\* ------------------------------------------------------------------------
\* pathlib: Path(s).name, .stem, .suffix
\* ------------------------------------------------------------------------
\* the parts of a path string: split on "/", "" and "." components dropped
RECURSIVE PathParts(_, _, _)
PathParts(s, i, cur) ==
    IF i > Len(s)
    THEN IF cur = <<>> \/ cur = <<".">> THEN <<>> ELSE <<cur>>
    ELSE IF s[i] = "/"
         THEN (IF cur = <<>> \/ cur = <<".">> THEN <<>> ELSE <<cur>>)
              \o PathParts(s, i + 1, <<>>)
         ELSE PathParts(s, i + 1, Append(cur, s[i]))

\* mutant of PathName: the string used as it is, directories included
PathName_verbatim(s) == s

\* Path(s).name: the last part, "" when there is none
PathName(s) ==
    LET parts == PathParts(s, 1, <<>>)
    IN  IF parts = <<>> THEN <<>> ELSE parts[Len(parts)]

\* name.rfind('.') as a 0-based index, -1 when absent
RFindDot(name) ==
    IF \E i \in 1..Len(name) : name[i] = "."
    THEN (CHOOSE i \in 1..Len(name) :
             name[i] = "." /\ \A j \in (i + 1)..Len(name) : name[j] # ".") - 1
    ELSE -1

\* PurePath.suffix of a final component
NameSuffix(name) ==
    LET i == RFindDot(name)
    IN  IF 0 < i /\ i < Len(name) - 1 THEN SubSeq(name, i + 1, Len(name)) ELSE <<>>

\* PurePath.stem of a final component
NameStem(name) ==
    LET i == RFindDot(name)
    IN  IF 0 < i /\ i < Len(name) - 1 THEN SubSeq(name, 1, i) ELSE name

\* ------------------------------------------------------------------------
\* detect_format
\* ------------------------------------------------------------------------
MAGIC_SIGNATURES ==
    << [sig |-> <<208, 207, 17, 224, 161, 177, 26, 225>>, ext |-> "ole"],
       [sig |-> <<80, 75, 3, 4>>,                         ext |-> "zip"],
       [sig |-> <<37, 80, 68, 70>>,                       ext |-> "pdf"],
       [sig |-> <<137, 80, 78, 71, 13, 10, 26, 10>>,      ext |-> "png"],
       [sig |-> <<255, 216, 255>>,                        ext |-> "jpg"],
       [sig |-> <<71, 73, 70, 56, 55, 97>>,               ext |-> "gif"],
       [sig |-> <<71, 73, 70, 56, 57, 97>>,               ext |-> "gif"],
       [sig |-> <<66, 77>>,                               ext |-> "bmp"],
       [sig |-> <<73, 73, 42, 0>>,                        ext |-> "tif"],
       [sig |-> <<77, 77, 0, 42>>,                        ext |-> "tif"] >>

\* the for loop of detect_format from table entry k on
RECURSIVE DetectFrom(_, _)
DetectFrom(data, k) ==
    IF k > Len(MAGIC_SIGNATURES)
    THEN "None"
    ELSE IF Slice(data, 0, Len(MAGIC_SIGNATURES[k].sig)) = MAGIC_SIGNATURES[k].sig
         THEN MAGIC_SIGNATURES[k].ext
         ELSE DetectFrom(data, k + 1)

detect_format(data) == DetectFrom(data, 1)

\* ------------------------------------------------------------------------
\* parse_ole10native
\* ------------------------------------------------------------------------
\* bytes.decode('latin-1') on the bytes the model draws names from
Latin1 ==
    (46 :> ".") @@ (47 :> "/") @@ (97 :> "a") @@ (98 :> "b") @@ (100 :> "d")

Decode(bs) == [i \in 1..Len(bs) |-> Latin1[bs[i]]]

\* a reader that raised (struct.error, IndexError, ValueError)
Raised == [ok |-> FALSE, val |-> 0, pos |-> 0]

\* mutant of read_dword: int.from_bytes(stream_data[pos:pos + 4], 'little'),
\* which reads a short buffer as if it were padded with zero bytes
read_dword_padded(s, pos) ==
    LET b == Slice(s, pos, pos + 4) \o <<0, 0, 0, 0>>
    IN  [ok |-> TRUE,
         val |-> b[1] + 256 * b[2] + 65536 * b[3] + 16777216 * b[4],
         pos |-> pos + 4]

\* struct.unpack_from('<I', stream_data, pos); pos += 4
read_dword(s, pos) ==
    IF Len(s) - pos >= 4
    THEN [ok |-> TRUE,
          val |-> s[pos + 1] + 256 * s[pos + 2] + 65536 * s[pos + 3]
                  + 16777216 * s[pos + 4],
          pos |-> pos + 4]
    ELSE Raised

\* struct.unpack_from('<H', stream_data, pos); pos += 2
read_word(s, pos) ==
    IF Len(s) - pos >= 2
    THEN [ok |-> TRUE, val |-> s[pos + 1] + 256 * s[pos + 2], pos |-> pos + 2]
    ELSE Raised

\* stream_data[pos]; pos += 1
read_byte(s, pos) ==
    IF pos < Len(s)
    THEN [ok |-> TRUE, val |-> s[pos + 1], pos |-> pos + 1]
    ELSE Raised

\* stream_data.index(b'\x00', pos); decode; pos = end + 1
read_cstring(s, pos) ==
    IF \E e \in (pos + 1)..Len(s) : s[e] = 0
    THEN LET end == (CHOOSE e \in (pos + 1)..Len(s) :
                        s[e] = 0 /\ \A j \in (pos + 1)..(e - 1) : s[j] # 0) - 1
         IN  [ok |-> TRUE, val |-> Decode(Slice(s, pos, end)), pos |-> end + 1]
    ELSE Raised

\* mutant of Candidates: original_path tried before original_path_repeat
Candidates_path_first(label, orig_path, orig_path2) == <<label, orig_path, orig_path2>>

\* the tuple the filename loop iterates over
Candidates(label, orig_path, orig_path2) == <<label, orig_path2, orig_path>>

\* the filename loop from candidate k on
RECURSIVE PickName(_, _)
PickName(cands, k) ==
    IF k > Len(cands)
    THEN None
    ELSE LET name == IF cands[k] # <<>> THEN PathName(cands[k]) ELSE <<>>
         IN  IF name # <<>> THEN Some(name) ELSE PickName(cands, k + 1)

\* the except branch: return None, None
ParseFailure == [filename |-> None, raw |-> None]

\* mutant of ReadRaw: the slice ends one byte early
ReadRaw_short(s, pos, data_size) == Slice(s, pos, pos + data_size - 1)

\* stream_data[pos: pos + data_size]
ReadRaw(s, pos, data_size) == Slice(s, pos, pos + data_size)

parse_ole10native(s) ==
    LET total == read_dword(s, 0) IN
    IF ~total.ok THEN ParseFailure ELSE
    LET type == read_word(s, total.pos) IN
    IF ~type.ok THEN ParseFailure ELSE
    LET label == read_cstring(s, type.pos) IN
    IF ~label.ok THEN ParseFailure ELSE
    LET orig_path == read_cstring(s, label.pos) IN
    IF ~orig_path.ok THEN ParseFailure ELSE
    LET unk_word == read_word(s, orig_path.pos) IN
    IF ~unk_word.ok THEN ParseFailure ELSE
    LET unk_byte == read_byte(s, unk_word.pos) IN
    IF ~unk_byte.ok THEN ParseFailure ELSE
    LET orig_path2 == read_cstring(s, unk_byte.pos) IN
    IF ~orig_path2.ok THEN ParseFailure ELSE
    LET data_size == read_dword(s, orig_path2.pos) IN
    IF ~data_size.ok THEN ParseFailure ELSE
    [filename |-> PickName(Candidates(label.val, orig_path.val, orig_path2.val), 1),
     raw |-> Some(ReadRaw(s, data_size.pos, data_size.val))]

\* ------------------------------------------------------------------------
\* Values held by the variables of a part of the program that a
\* specification does not exercise
\* ------------------------------------------------------------------------
IdleRun ==
    /\ listing = <<>>
    /\ valid = TRUE
    /\ fs = <<>>
    /\ pc = "idle"
    /\ candidates = <<>>
    /\ idx = 0
    /\ results = <<>>
    /\ log = <<>>

IdleParse ==
    /\ pin = [built |-> FALSE]
    /\ stream = <<>>
    /\ pres = [called |-> FALSE]

IdleDetect ==
    /\ buf = <<>>
    /\ tag = "not called"

\* ------------------------------------------------------------------------
\* Calls of parse_ole10native on streams laid out as the docstring says,
\* cut at any length
\* ------------------------------------------------------------------------
LE16(n) == <<n % 256, (n \div 256) % 256>>
LE32(n) ==
    <<n % 256, (n \div 256) % 256, (n \div 65536) % 256, (n \div 16777216) % 256>>

RECURSIVE SeqsUpTo(_, _)
SeqsUpTo(S, n) ==
    IF n = 0
    THEN {<<>>}
    ELSE LET shorter == SeqsUpTo(S, n - 1)
         IN  shorter \cup {Append(q, x) : q \in shorter, x \in S}

\* label bytes: "", "a", ".", "..", "a.b", "d/a", "d/"
LabelPool ==
    {<<>>, <<97>>, <<46>>, <<46, 46>>, <<97, 46, 98>>, <<100, 47, 97>>, <<100, 47>>}

\* original-path bytes: "", "d/b", "a"
PathPool == {<<>>, <<100, 47, 98>>, <<97>>}

\* total_size, type and the three opaque bytes
HeaderPool ==
    {[total_size |-> 300, type |-> 2, unknown |-> <<0, 0, 0>>],
     [total_size |-> 0, type |-> 513, unknown |-> <<1, 0, 7>>]}

PayloadPool == SeqsUpTo({0, 37}, MaxPayload)

\* the bytes of a packaged-object stream with the given fields
BuildStream(f) ==
    LE32(f.total_size) \o LE16(f.type)
    \o f.label \o <<0>> \o f.orig_path \o <<0>>
    \o f.unknown
    \o f.orig_path2 \o <<0>>
    \o LE32(f.data_size) \o f.payload

\* the length of everything before the payload
HeaderLen(f) == 6 + Len(f.label) + 1 + Len(f.orig_path) + 1 + 3
                + Len(f.orig_path2) + 1 + 4

InitParse ==
    /\ IdleRun
    /\ IdleDetect
    /\ \E h \in HeaderPool, l \in LabelPool, p \in PathPool, p2 \in PathPool,
          d \in 0..MaxDeclared, pl \in PayloadPool :
          LET f == [total_size |-> h.total_size, type |-> h.type,
                    unknown |-> h.unknown, label |-> l, orig_path |-> p,
                    orig_path2 |-> p2, data_size |-> d, payload |-> pl]
          IN  \E cut \in 0..Len(BuildStream(f)) :
                 /\ pin = [built |-> TRUE, f |-> f, cut |-> cut]
                 /\ stream = SubSeq(BuildStream(f), 1, cut)
    /\ pres = [called |-> FALSE]

ParseCall ==
    /\ pin.built
    /\ ~pres.called
    /\ pres' = [called |-> TRUE, ret |-> parse_ole10native(stream)]
    /\ UNCHANGED <<pin, stream, runVars, detectVars>>

NextParse == ParseCall

SpecParse == InitParse /\ [][NextParse]_vars

\* ------------------------------------------------------------------------
\* Calls of detect_format
\* ------------------------------------------------------------------------
\* the signature table the specification requires, in order
RequiredTable ==
    << [sig |-> <<208, 207, 17, 224, 161, 177, 26, 225>>, tag |-> "OLE"],
       [sig |-> <<80, 75, 3, 4>>,                         tag |-> "ZIP"],
       [sig |-> <<37, 80, 68, 70>>,                       tag |-> "PDF"],
       [sig |-> <<137, 80, 78, 71, 13, 10, 26, 10>>,      tag |-> "PNG"],
       [sig |-> <<255, 216, 255>>,                        tag |-> "JPEG"],
       [sig |-> <<71, 73, 70, 56, 55, 97>>,               tag |-> "GIF"],
       [sig |-> <<71, 73, 70, 56, 57, 97>>,               tag |-> "GIF"],
       [sig |-> <<66, 77>>,                               tag |-> "BMP"],
       [sig |-> <<73, 73, 42, 0>>,                        tag |-> "TIFF"],
       [sig |-> <<77, 77, 0, 42>>,                        tag |-> "TIFF"],
       [sig |-> <<82, 73, 70, 70>>,                       tag |-> "RIFF"],
       [sig |-> <<31, 139>>,                              tag |-> "GZIP"] >>

\* buffers: every prefix of every required signature, followed by up to
\* MaxTail bytes that may start another signature
TailBytes == {0, 80, 66, 77, 208}

BufferPool ==
    {Slice(RequiredTable[k].sig, 0, n) \o t :
        k \in 1..Len(RequiredTable), n \in 0..8, t \in SeqsUpTo(TailBytes, MaxTail)}

InitDetect ==
    /\ IdleRun
    /\ IdleParse
    /\ buf \in BufferPool
    /\ tag = "not called"

DetectCall ==
    /\ tag = "not called"
    /\ tag' = detect_format(buf)
    /\ UNCHANGED <<buf, runVars, parseVars>>

NextDetect == DetectCall

SpecDetect == InitDetect /\ [][NextDetect]_vars

\* ------------------------------------------------------------------------
\* detect_ole_subtype
\* ------------------------------------------------------------------------
\* the packaged-object stream's path
NativeStream == "\\x01Ole10Native"

\* stream paths that contain the substring '__substg1.0_'
SubstgStreams == {"__substg1.0_0037001F"}

\* olefile over an item: opens says whether OleFileIO accepts the bytes,
\* streams is listdir(), readable says whether openstream(...).read() returns
detect_ole_subtype(ole) ==
    IF ~ole.opens THEN "ole"
    ELSE IF ole.streams \cap SubstgStreams # {} THEN "msg"
    ELSE IF "WordDocument" \in ole.streams THEN "doc"
    ELSE IF "Workbook" \in ole.streams \/ "Book" \in ole.streams THEN "xls"
    ELSE IF "PowerPoint Document" \in ole.streams THEN "ppt"
    ELSE "ole"

\* ------------------------------------------------------------------------
\* unique_path
\* ------------------------------------------------------------------------
DigitChars == <<"0", "1", "2", "3", "4", "5", "6", "7", "8", "9">>

\* str(i) for i >= 0
RECURSIVE Str(_)
Str(i) == IF i < 10 THEN <<DigitChars[i + 1]>>
          ELSE Str(i \div 10) \o <<DigitChars[(i % 10) + 1]>>

\* Path.exists() of output_dir / name, files being the names in output_dir;
\* output_dir / ".." is the parent directory, which exists
Exists(files, name) == name \in files \/ name = <<".", ".">>

\* mutant of Candidate: the counter appended after the extension
Candidate_after_suffix(stem, suffix, i) == stem \o suffix \o <<"_">> \o Str(i)

\* f"{stem}_{i}{suffix}"
Candidate(stem, suffix, i) == stem \o <<"_">> \o Str(i) \o suffix

\* the while loop of unique_path from counter i on
RECURSIVE UniqueFrom(_, _, _, _)
UniqueFrom(files, stem, suffix, i) ==
    IF ~Exists(files, Candidate(stem, suffix, i))
    THEN Candidate(stem, suffix, i)
    ELSE UniqueFrom(files, stem, suffix, i + 1)

\* mutant of unique_path: the existence check left out
unique_path_unchecked(files, name) == name

unique_path(files, name) ==
    IF ~Exists(files, name)
    THEN name
    ELSE UniqueFrom(files, NameStem(name), NameSuffix(name), 1)

\* ------------------------------------------------------------------------
\* process_embedding up to its write
\* ------------------------------------------------------------------------
ext_map ==
    [zip |-> <<".", "z", "i", "p">>, pdf |-> <<".", "p", "d", "f">>,
     png |-> <<".", "p", "n", "g">>, jpg |-> <<".", "j", "p", "g">>,
     gif |-> <<".", "g", "i", "f">>, bmp |-> <<".", "b", "m", "p">>,
     tif |-> <<".", "t", "i", "f">>]

\* f".{subtype}"
SubtypeExt ==
    [msg |-> <<".", "m", "s", "g">>, doc |-> <<".", "d", "o", "c">>,
     xls |-> <<".", "x", "l", "s">>, ppt |-> <<".", "p", "p", "t">>,
     ole |-> <<".", "o", "l", "e">>]

DotBin == <<".", "b", "i", "n">>

NoParse == [called |-> FALSE, ret |-> ParseFailure]

\* out_name = filename if filename else f"{fallback_stem}.bin"
OutName(filename, fallback_stem) ==
    IF ~filename.none /\ filename.val # <<>> THEN filename.val
    ELSE fallback_stem \o DotBin

\* inner_bytes is not None and len(inner_bytes) > 0
InnerUsable(ret) == ~ret.raw.none /\ Len(ret.raw.val) > 0

\* What process_embedding decides before unique_path and write_bytes:
\* the branch taken, the target name and the bytes to write, or that
\* openstream(...).read() raised.
process_embedding(zname, item) ==
    LET fallback_stem == NameStem(PathName(zname))
        fmt == detect_format(item.bytes)
        native == item.ole.opens /\ NativeStream \in item.ole.streams
        parsed == IF fmt = "ole" /\ native /\ item.ole.readable
                  THEN [called |-> TRUE, ret |-> parse_ole10native(item.ole.stream)]
                  ELSE NoParse
        orig_ext == IF NameSuffix(PathName(zname)) # <<>>
                    THEN NameSuffix(PathName(zname)) ELSE DotBin
    IN  IF fmt # "None" /\ fmt # "ole"
        THEN [branch |-> "plain", raises |-> FALSE, fmt |-> fmt, parsed |-> parsed,
              target |-> fallback_stem \o ext_map[fmt], content |-> item.bytes]
        ELSE IF fmt = "ole"
        THEN IF ~item.ole.opens
             THEN [branch |-> "cannot open", raises |-> FALSE, fmt |-> fmt,
                   parsed |-> parsed,
                   target |-> fallback_stem \o DotBin, content |-> item.bytes]
             ELSE IF native /\ ~item.ole.readable
             THEN [branch |-> "stream read", raises |-> TRUE, fmt |-> fmt,
                   parsed |-> parsed, target |-> <<>>, content |-> <<>>]
             ELSE IF native /\ InnerUsable(parsed.ret)
             THEN [branch |-> "package", raises |-> FALSE, fmt |-> fmt,
                   parsed |-> parsed,
                   target |-> OutName(parsed.ret.filename, fallback_stem),
                   content |-> parsed.ret.raw.val]
             ELSE [branch |-> "native ole", raises |-> FALSE, fmt |-> fmt,
                   parsed |-> parsed,
                   target |-> fallback_stem \o SubtypeExt[detect_ole_subtype(item.ole)],
                   content |-> item.bytes]
        ELSE [branch |-> "unknown", raises |-> FALSE, fmt |-> fmt, parsed |-> parsed,
              target |-> fallback_stem \o orig_ext, content |-> item.bytes]

\* ------------------------------------------------------------------------
\* extract_attachments
\* ------------------------------------------------------------------------
EMBEDDING_PREFIXES ==
    << <<"x", "l", "/", "e", "m", "b", "e", "d", "d", "i", "n", "g", "s", "/">>,
       <<"w", "o", "r", "d", "/", "e", "m", "b", "e", "d", "d", "i", "n", "g", "s", "/">>,
       <<"p", "p", "t", "/", "e", "m", "b", "e", "d", "d", "i", "n", "g", "s", "/">>,
       <<"x", "l", "/", "m", "e", "d", "i", "a", "/">>,
       <<"w", "o", "r", "d", "/", "m", "e", "d", "i", "a", "/">>,
       <<"p", "p", "t", "/", "m", "e", "d", "i", "a", "/">> >>

\* any(n.startswith(p) for p in EMBEDDING_PREFIXES) and not n.endswith('/')
IsCandidate(n) ==
    /\ \E k \in 1..Len(EMBEDDING_PREFIXES) : StartsWith(n, EMBEDDING_PREFIXES[k])
    /\ ~EndsWith(n, <<"/">>)

\* the list comprehension at line 260, as indices into the listing from i on
RECURSIVE SelectFrom(_, _)
SelectFrom(entries, i) ==
    IF i > Len(entries)
    THEN <<>>
    ELSE (IF IsCandidate(entries[i].name) THEN <<i>> ELSE <<>>)
         \o SelectFrom(entries, i + 1)

\* ---- the archives and output directories the model runs on ----
OleMagic == <<208, 207, 17, 224, 161, 177, 26, 225>>

\* the fields a packaged-object stream was laid out from, and where it was cut
Fields(label, orig_path, orig_path2, data_size, payload) ==
    [total_size |-> 300, type |-> 2, unknown |-> <<0, 0, 0>>,
     label |-> label, orig_path |-> orig_path, orig_path2 |-> orig_path2,
     data_size |-> data_size, payload |-> payload]

NoFields == Fields(<<>>, <<>>, <<>>, 0, <<>>)

NoOle == [opens |-> FALSE, streams |-> {}, readable |-> FALSE, stream |-> <<>>,
          f |-> NoFields, cut |-> 0]

\* an OLE compound document without the packaged-object stream
NativeItem(name, streams) ==
    [name |-> name, readOk |-> TRUE, bytes |-> OleMagic \o <<62>>,
     ole |-> [opens |-> TRUE, streams |-> streams, readable |-> FALSE,
              stream |-> <<>>, f |-> NoFields, cut |-> 0]]

\* an OLE compound document holding the first cut bytes of a packaged-object
\* stream, beside the streams named
PackageItem(name, others, readable, f, cut) ==
    [name |-> name, readOk |-> TRUE, bytes |-> OleMagic \o <<62>>,
     ole |-> [opens |-> TRUE, streams |-> {NativeStream} \cup others,
              readable |-> readable,
              stream |-> IF readable THEN SubSeq(BuildStream(f), 1, cut) ELSE <<>>,
              f |-> f, cut |-> cut]]

\* a whole packaged-object stream
Whole(f) == Len(BuildStream(f))

PlainItem(name, readOk, bytes) ==
    [name |-> name, readOk |-> readOk, bytes |-> bytes, ole |-> NoOle]

XlEmb == <<"x", "l", "/", "e", "m", "b", "e", "d", "d", "i", "n", "g", "s", "/", "o", ".", "b", "i", "n">>
WordEmb == <<"w", "o", "r", "d", "/", "e", "m", "b", "e", "d", "d", "i", "n", "g", "s", "/", "o", ".", "b", "i", "n">>
PptEmb == <<"p", "p", "t", "/", "e", "m", "b", "e", "d", "d", "i", "n", "g", "s", "/", "o", ".", "b", "i", "n">>

LabelAB == Fields(<<97, 46, 98>>, <<100, 47, 98>>, <<97>>, 2, <<37, 0>>)
PathsOnly == Fields(<<>>, <<100, 47, 98>>, <<97>>, 1, <<37>>)
LabelDot == Fields(<<46>>, <<100, 47, 98>>, <<>>, 1, <<37>>)
Nameless == Fields(<<>>, <<>>, <<>>, 1, <<37>>)
LabelDotDot == Fields(<<46, 46>>, <<>>, <<>>, 1, <<37>>)
EmptyPayload == Fields(<<97, 46, 98>>, <<>>, <<>>, 0, <<>>)
Overrun == Fields(<<97, 46, 98>>, <<>>, <<>>, 3, <<37>>)
LabelUp == Fields(<<46, 46, 47, 97>>, <<>>, <<>>, 1, <<37>>)

EntryPool ==
    { \* label "a.b", both paths given, two payload bytes
      PackageItem(XlEmb, {}, TRUE, LabelAB, Whole(LabelAB)),
      \* no label, original_path "d/b", original_path_repeat "a"
      PackageItem(WordEmb, {}, TRUE, PathsOnly, Whole(PathsOnly)),
      \* label ".", original_path "d/b", no original_path_repeat
      PackageItem(PptEmb, {}, TRUE, LabelDot, Whole(LabelDot)),
      \* no recoverable name at all
      PackageItem(XlEmb, {}, TRUE, Nameless, Whole(Nameless)),
      \* label "..": the parent directory
      PackageItem(XlEmb, {}, TRUE, LabelDotDot, Whole(LabelDotDot)),
      \* label "../a": a path that leaves the directory
      PackageItem(XlEmb, {}, TRUE, LabelUp, Whole(LabelUp)),
      \* zero-length payload, beside a WordDocument stream
      PackageItem(WordEmb, {"WordDocument"}, TRUE, EmptyPayload, Whole(EmptyPayload)),
      \* stream cut in the middle of the label
      PackageItem(XlEmb, {}, TRUE, LabelAB, 8),
      \* data_size 3 declared, one payload byte present
      PackageItem(XlEmb, {}, TRUE, Overrun, Whole(Overrun)),
      \* \x01Ole10Native exists but openstream(...).read() raises
      PackageItem(WordEmb, {}, FALSE, LabelAB, Whole(LabelAB)),
      \* native OLE server documents
      NativeItem(XlEmb, {"Workbook"}),
      NativeItem(WordEmb, {"__substg1.0_0037001F", "WordDocument"}),
      \* OLE magic that OleFileIO rejects
      PlainItem(PptEmb, TRUE, OleMagic),
      \* a PNG, unknown bytes with and without an extension, an unreadable entry
      PlainItem(<<"x", "l", "/", "m", "e", "d", "i", "a", "/", "o", ".", "p", "n", "g">>, TRUE, <<137, 80, 78, 71, 13, 10, 26, 10, 1>>),
      PlainItem(<<"w", "o", "r", "d", "/", "m", "e", "d", "i", "a", "/", "o", ".", "a">>, TRUE, <<1, 2>>),
      PlainItem(<<"p", "p", "t", "/", "m", "e", "d", "i", "a", "/", "o">>, TRUE, <<1, 2>>),
      PlainItem(<<"x", "l", "/", "m", "e", "d", "i", "a", "/", "o", ".", "b", "i", "n">>, FALSE, <<>>),
      \* an entry name that ends in ".."
      PlainItem(<<"x", "l", "/", "m", "e", "d", "i", "a", "/", ".", ".", "/", ".", ".">>, TRUE, <<1, 2>>),
      \* entries the selection skips
      PlainItem(<<"x", "l", "/", "m", "e", "d", "i", "a", "/">>, TRUE, <<>>),
      PlainItem(<<"x", "l", "/", "o", ".", "b", "i", "n">>, TRUE, <<1, 2>>) }

Listings == SeqsUpTo(EntryPool, MaxEntries)

\* files that may be in the output directory before the run
OldBytes == <<111>>
InitialNames == { <<"o", ".", "b", "i", "n">>, <<"o", "_", "1", ".", "b", "i", "n">> }

Init ==
    /\ IdleParse
    /\ IdleDetect
    /\ listing \in Listings
    /\ valid \in BOOLEAN
    /\ \E present \in SUBSET InitialNames : fs = [n \in present |-> OldBytes]
    /\ pc = "start"
    /\ candidates = <<>>
    /\ idx = 0
    /\ results = <<>>
    /\ log = <<>>

\* lines 248-254: the extension and is_zipfile checks raise ValueError
Reject ==
    /\ pc = "start"
    /\ ~valid
    /\ pc' = "fatal"
    /\ UNCHANGED <<listing, valid, fs, candidates, idx, results, log,
                   parseVars, detectVars>>

\* lines 256-269: select the candidates; return [] when there are none
Select ==
    /\ pc = "start"
    /\ valid
    /\ candidates' = SelectFrom(listing, 1)
    /\ pc' = IF SelectFrom(listing, 1) = <<>> THEN "returned" ELSE "loop"
    /\ UNCHANGED <<listing, valid, fs, idx, results, log, parseVars, detectVars>>

\* the record of one pass of the loop body
Call(i, plan, path, wrote) ==
    [entry |-> i, zname |-> listing[i].name, plan |-> plan,
     before |-> fs, path |-> path, wrote |-> wrote]

NoPlan ==
    [branch |-> "entry read", raises |-> TRUE, fmt |-> "None", parsed |-> NoParse,
     target |-> <<>>, content |-> <<>>]

\* line 271: zf.read(zname) raises; nothing catches it
ReadRaises ==
    /\ pc = "loop"
    /\ idx < Len(candidates)
    /\ ~listing[candidates[idx + 1]].readOk
    /\ pc' = "raised"
    /\ log' = Append(log, Call(candidates[idx + 1], NoPlan, <<>>, "nothing"))
    /\ UNCHANGED <<listing, valid, fs, candidates, idx, results, parseVars, detectVars>>

\* line 190: openstream(...).read() raises; nothing catches it
StreamRaises ==
    /\ pc = "loop"
    /\ idx < Len(candidates)
    /\ listing[candidates[idx + 1]].readOk
    /\ LET i == candidates[idx + 1]
           plan == process_embedding(listing[i].name, listing[i])
       IN  /\ plan.raises
           /\ log' = Append(log, Call(i, plan, <<>>, "nothing"))
    /\ pc' = "raised"
    /\ UNCHANGED <<listing, valid, fs, candidates, idx, results, parseVars, detectVars>>

\* lines 271-274 with a write that succeeds
ProcessItem ==
    /\ pc = "loop"
    /\ idx < Len(candidates)
    /\ listing[candidates[idx + 1]].readOk
    /\ LET i == candidates[idx + 1]
           plan == process_embedding(listing[i].name, listing[i])
           path == unique_path(DOMAIN fs, plan.target)
       IN  /\ ~plan.raises
           /\ fs' = (path :> plan.content) @@ fs
           /\ results' = Append(results, path)
           /\ log' = Append(log, Call(i, plan, path, "all"))
    /\ idx' = idx + 1
    /\ UNCHANGED <<listing, valid, pc, candidates, parseVars, detectVars>>

\* write_bytes raises: open() failed and left nothing, or the write stopped
\* after creating the file (empty, or one byte short); nothing catches it
WriteRaises ==
    /\ pc = "loop"
    /\ idx < Len(candidates)
    /\ listing[candidates[idx + 1]].readOk
    /\ LET i == candidates[idx + 1]
           plan == process_embedding(listing[i].name, listing[i])
           path == unique_path(DOMAIN fs, plan.target)
       IN  /\ ~plan.raises
           /\ \/ /\ fs' = fs
                 /\ log' = Append(log, Call(i, plan, path, "nothing"))
              \/ \E n \in {0, Len(plan.content) - 1} :
                    /\ fs' = (path :> SubSeq(plan.content, 1, n)) @@ fs
                    /\ log' = Append(log, Call(i, plan, path, "part"))
    /\ pc' = "raised"
    /\ UNCHANGED <<listing, valid, candidates, idx, results, parseVars, detectVars>>

\* line 276
Return ==
    /\ pc = "loop"
    /\ idx = Len(candidates)
    /\ pc' = "returned"
    /\ UNCHANGED <<listing, valid, fs, candidates, idx, results, log,
                   parseVars, detectVars>>

Next ==
    \/ Reject
    \/ Select
    \/ ReadRaises
    \/ StreamRaises
    \/ ProcessItem
    \/ WriteRaises
    \/ Return

Spec == Init /\ [][Next]_vars

\* ========================================================================
\* Properties of the run, stated over the behaviours of Spec
\* ========================================================================
\* the output directory after pass k of the loop body
After(k) == IF k < Len(log) THEN log[k + 1].before ELSE fs

\* C1: every write of process_embedding goes to a path that did not exist
\* just before it, every file that existed before a pass of the loop body
\* is left with the bytes it had, and the paths in results are pairwise
\* distinct.
C1_NoOverwrite ==
    /\ \A k \in 1..Len(log) :
          /\ log[k].wrote # "nothing" =>
                /\ log[k].path \notin DOMAIN log[k].before
                /\ log[k].path # <<".", ".">>
          /\ \A n \in DOMAIN log[k].before :
                n \in DOMAIN After(k) /\ After(k)[n] = log[k].before[n]
    /\ \A i, j \in 1..Len(results) : i # j => results[i] # results[j]

\* a second item of the run was written whose target name was already taken
C1_Witness ==
    /\ Len(log) = 2
    /\ log[2].wrote = "all"
    /\ log[2].plan.target \in DOMAIN log[2].before
    /\ log[2].plan.target = log[1].path

\* C2: once the container is open, extract_attachments never ends with an
\* exception of a per-item step: it goes on to the entries that follow and
\* returns.
C2_PerItemFailureContained == pc # "raised"

\* <stem>_<k><ext> for a name <stem><ext>: "_k" goes in front of the last
\* "." of the name unless that "." is its first or its last character
ExtStart(name) ==
    IF \E i \in 2..(Len(name) - 1) :
          name[i] = "." /\ \A j \in (i + 1)..Len(name) : name[j] # "."
    THEN CHOOSE i \in 2..(Len(name) - 1) :
            name[i] = "." /\ \A j \in (i + 1)..Len(name) : name[j] # "."
    ELSE Len(name) + 1

Suffixed(name, k) ==
    SubSeq(name, 1, ExtStart(name) - 1) \o <<"_", DigitChars[k + 1]>>
    \o SubSeq(name, ExtStart(name), Len(name))

\* the passes of the loop body that reached unique_path
Named(k) == ~log[k].plan.raises /\ log[k].plan.branch # "entry read"

\* a name process_embedding put together from the entry's stem and an
\* extension, as opposed to one recovered from a packaged object
Synthesized(k) ==
    Named(k) /\ (log[k].plan.branch = "package" => log[k].plan.parsed.ret.filename.none)

\* C6: unique_path returns the target when it does not exist, and otherwise
\* <stem>_<k><ext> for the smallest k >= 1 whose path does not exist; two
\* items with the same synthesized target written into an empty directory
\* give the plain name and then the name suffixed _1.
C6_UniquePath ==
    /\ \A k \in 1..Len(log) : Named(k) =>
          LET t == log[k].plan.target
              old == DOMAIN log[k].before
          IN  /\ ~Exists(old, t) => log[k].path = t
              /\ Exists(old, t) =>
                    \E n \in 1..(Cardinality(old) + 1) :
                       /\ log[k].path = Suffixed(t, n)
                       /\ ~Exists(old, Suffixed(t, n))
                       /\ \A m \in 1..(n - 1) : Exists(old, Suffixed(t, m))
    /\ ( /\ Len(log) >= 2
         /\ DOMAIN log[1].before = {}
         /\ log[1].wrote = "all" /\ log[2].wrote = "all"
         /\ Synthesized(1) /\ Synthesized(2)
         /\ log[1].plan.target = log[2].plan.target )
       => /\ results[1] = log[1].plan.target
          /\ results[2] = Suffixed(log[1].plan.target, 1)
          /\ results[1] # results[2]
          /\ {results[1], results[2]} \subseteq DOMAIN After(2)

\* two items with the same synthesized target were written into an empty
\* directory
C6_Witness ==
    /\ Len(log) = 2
    /\ DOMAIN log[1].before = {}
    /\ log[1].wrote = "all" /\ log[2].wrote = "all"
    /\ Synthesized(1) /\ Synthesized(2)
    /\ log[1].plan.target = log[2].plan.target
    /\ results = << <<"o", ".", "b", "i", "n">>, <<"o", "_", "1", ".", "b", "i", "n">> >>

\* the target and its _1 name were both taken, and _2 was used
C6_SecondSuffixReached ==
    \E k \in 1..Len(log) :
       /\ log[k].wrote = "all"
       /\ log[k].plan.target = <<"o", ".", "b", "i", "n">>
       /\ log[k].path = <<"o", "_", "2", ".", "b", "i", "n">>

\* the OLE item of pass k
ItemOf(k) == listing[log[k].entry]

\* C9: on a stream that parses, the filename is the final path component of
\* the first of (label, original_path_repeat, original_path) that has a
\* non-empty one; when none has, no filename is returned, the bytes still
\* are, and the name written is made from the entry's stem.
C9_FilenameOrder ==
    \A k \in 1..Len(log) :
       (log[k].plan.parsed.called /\ ~log[k].plan.parsed.ret.raw.none) =>
          LET f == ItemOf(k).ole.f
              ret == log[k].plan.parsed.ret
              c == <<Decode(f.label), Decode(f.orig_path2), Decode(f.orig_path)>>
              stem == NameStem(PathName(log[k].zname))
          IN  \/ \E j \in 1..3 :
                    /\ PathName(c[j]) # <<>>
                    /\ \A m \in 1..(j - 1) : PathName(c[m]) = <<>>
                    /\ ret.filename = Some(PathName(c[j]))
              \/ /\ \A j \in 1..3 : PathName(c[j]) = <<>>
                 /\ ret.filename = None
                 /\ StartsWith(log[k].plan.target, stem \o <<".">>)
                 /\ Len(ret.raw.val) > 0 => log[k].plan.target = stem \o DotBin

\* the label "." has no final component, original_path_repeat is empty, and
\* the name came from original_path "d/b"
C9_Witness ==
    \E k \in 1..Len(log) :
       /\ log[k].wrote = "all"
       /\ ItemOf(k).ole.f.label = <<46>>
       /\ log[k].plan.parsed.ret.filename = Some(<<"b">>)
       /\ log[k].path = <<"b">>

\* a stream with no recoverable name was written under <stem>.bin
C9_SynthesizedReached ==
    \E k \in 1..Len(log) :
       /\ log[k].wrote = "all"
       /\ log[k].plan.branch = "package"
       /\ log[k].plan.parsed.ret.filename = None
       /\ log[k].path = <<"o", ".", "b", "i", "n">>

\* the passes of the loop body in which the file system refused nothing
NoWriteFault(k) == log[k].plan.raises \/ log[k].wrote = "all"

\* the \x01Ole10Native stream is present and decoding it gives a payload
Unpacks(item) ==
    /\ NativeStream \in item.ole.streams
    /\ item.ole.readable
    /\ InnerUsable(parse_ole10native(item.ole.stream))

\* C7: for an item classified OLE whose compound document opens, exactly
\* one file is written: the decoded payload under the recovered name when
\* the \x01Ole10Native stream is present and decodes to a non-empty payload,
\* and the unmodified raw bytes as <entry-stem>.<sub-type extension> in
\* every other case.
C7_OleBranch ==
    \A k \in 1..Len(log) :
       ( /\ log[k].plan.fmt = "ole"
         /\ ItemOf(k).ole.opens
         /\ NoWriteFault(k) ) =>
          LET item == ItemOf(k)
              stem == NameStem(PathName(log[k].zname))
              ret == parse_ole10native(item.ole.stream)
          IN  /\ log[k].wrote = "all"
              /\ DOMAIN After(k) = DOMAIN log[k].before \cup {log[k].path}
              /\ log[k].path \notin DOMAIN log[k].before
              /\ IF Unpacks(item)
                 THEN /\ After(k)[log[k].path] = ret.raw.val
                      /\ log[k].plan.target = OutName(ret.filename, stem)
                 ELSE /\ After(k)[log[k].path] = item.bytes
                      /\ log[k].plan.target
                            = stem \o SubtypeExt[detect_ole_subtype(item.ole)]

\* C7 on the items whose \x01Ole10Native stream, when present, can be read
C7_OleBranchReadable ==
    \A k \in 1..Len(log) :
       ( /\ log[k].plan.fmt = "ole"
         /\ ItemOf(k).ole.opens
         /\ NoWriteFault(k)
         /\ (NativeStream \in ItemOf(k).ole.streams => ItemOf(k).ole.readable) ) =>
          LET item == ItemOf(k)
              stem == NameStem(PathName(log[k].zname))
              ret == parse_ole10native(item.ole.stream)
          IN  /\ log[k].wrote = "all"
              /\ DOMAIN After(k) = DOMAIN log[k].before \cup {log[k].path}
              /\ log[k].path \notin DOMAIN log[k].before
              /\ IF Unpacks(item)
                 THEN /\ After(k)[log[k].path] = ret.raw.val
                      /\ log[k].plan.target = OutName(ret.filename, stem)
                 ELSE /\ After(k)[log[k].path] = item.bytes
                      /\ log[k].plan.target
                            = stem \o SubtypeExt[detect_ole_subtype(item.ole)]

\* the entries the run has to process: those under an embedding prefix that
\* are not directory markers, in archive order
Selected == { i \in 1..Len(listing) : IsCandidate(listing[i].name) }

InOrder(q) == \A a, b \in 1..Len(q) : a < b => q[a] < q[b]

\* the run ended and the file system refused no write
EndedWithoutWriteFault ==
    /\ pc \in {"returned", "raised"}
    /\ \A k \in 1..Len(log) : NoWriteFault(k)

\* C10: a run processes exactly the selected entries, each once and in
\* archive order, and returns one output path per processed entry in that
\* order; with nothing selected it returns the empty list and writes nothing.
C10_SelectionAndOrder ==
    EndedWithoutWriteFault =>
       /\ pc = "returned"
       /\ {log[k].entry : k \in 1..Len(log)} = Selected
       /\ Len(log) = Cardinality(Selected)
       /\ InOrder([k \in 1..Len(log) |-> log[k].entry])
       /\ Len(results) = Len(log)
       /\ \A k \in 1..Len(log) : results[k] = log[k].path
       /\ Selected = {} => results = <<>> /\ log = <<>>

\* C10 on the runs that return
C10_SelectionAndOrderOnReturn ==
    pc = "returned" =>
       /\ {log[k].entry : k \in 1..Len(log)} = Selected
       /\ Len(log) = Cardinality(Selected)
       /\ InOrder([k \in 1..Len(log) |-> log[k].entry])
       /\ Len(results) = Len(log)
       /\ \A k \in 1..Len(log) : results[k] = log[k].path
       /\ Selected = {} => results = <<>> /\ log = <<>>

\* ========================================================================
\* Properties of parse_ole10native, stated over the behaviours of SpecParse
\* ========================================================================
\* the stream under test holds every field in front of the payload
HeaderComplete == pin.cut >= HeaderLen(pin.f)

\* the bytes of the stream under test that follow the data_size field
Remaining == pin.cut - HeaderLen(pin.f)

\* C3: when the header fields parse and data_size is larger than the number
\* of bytes that follow it, parse_ole10native reports failure; whenever it
\* returns bytes, there are data_size of them.
C3_OverrunFails ==
    pres.called =>
       /\ (HeaderComplete /\ pin.f.data_size > Remaining) => pres.ret = ParseFailure
       /\ ~pres.ret.raw.none => Len(pres.ret.raw.val) = pin.f.data_size

\* the stream is the whole layout and data_size is the payload's length
WholeStream ==
    /\ pin.cut = Len(BuildStream(pin.f))
    /\ pin.f.data_size = Len(pin.f.payload)

\* the label is not empty and holds neither a NUL nor a "/"
PlainLabel ==
    /\ pin.f.label # <<>>
    /\ \A i \in 1..Len(pin.f.label) : pin.f.label[i] # 0 /\ pin.f.label[i] # 47

\* the stream decodes to the label and the payload
RoundTrips ==
    /\ pres.ret.filename = Some(Decode(pin.f.label))
    /\ pres.ret.raw = Some(pin.f.payload)

\* C4 as stated: every non-empty label without NUL and without a path
\* separator comes back as the filename, and the payload as the inner bytes.
C4_RoundTripAnyLabel ==
    (pres.called /\ WholeStream /\ PlainLabel) => RoundTrips

\* C4 as amended: the same for every such label other than ".".
C4_RoundTrip ==
    (pres.called /\ WholeStream /\ PlainLabel /\ pin.f.label # <<46>>) => RoundTrips

\* label "a.b" and a two-byte payload came back
C4_Witness ==
    /\ pres.called
    /\ WholeStream
    /\ pin.f.label = <<97, 46, 98>>
    /\ pin.f.payload = <<37, 0>>
    /\ pin.f.orig_path # <<>>
    /\ pres.ret = [filename |-> Some(<<"a", ".", "b">>), raw |-> Some(<<37, 0>>)]

\* C8: a stream that ends before the NUL of one of its three strings, or
\* inside one of its fixed-width fields, gives the failure value; the call
\* returns and raises nothing.
C8_TruncatedFails ==
    (pres.called /\ ~HeaderComplete) => pres.ret = ParseFailure

\* a stream cut inside its label, and one cut inside its data_size field
C8_Witness ==
    /\ pres.called
    /\ pres.ret = ParseFailure
    /\ pin.f.label = <<97, 46, 98>>
    /\ pin.cut = 8

C8_CutInDataSizeReached ==
    /\ pres.called
    /\ pres.ret = ParseFailure
    /\ pin.cut = HeaderLen(pin.f) - 2

\* ========================================================================
\* Properties of detect_format, stated over the behaviours of SpecDetect
\* ========================================================================
\* the tag the required table gives a buffer
RequiredTag(data) ==
    IF \E k \in 1..Len(RequiredTable) : StartsWith(data, RequiredTable[k].sig)
    THEN RequiredTable[CHOOSE k \in 1..Len(RequiredTable) :
            /\ StartsWith(data, RequiredTable[k].sig)
            /\ \A j \in 1..(k - 1) : ~StartsWith(data, RequiredTable[j].sig)].tag
    ELSE "Unknown"

\* the tag each return value of detect_format stands for
TagOf ==
    [ole |-> "OLE", zip |-> "ZIP", pdf |-> "PDF", png |-> "PNG", jpg |-> "JPEG",
     gif |-> "GIF", bmp |-> "BMP", tif |-> "TIFF", riff |-> "RIFF",
     gzip |-> "GZIP", None |-> "Unknown"]

\* C5: detect_format returns the tag of the first entry of the required
\* table that the buffer starts with, Unknown when there is none; RIFF and
\* GZIP buffers are tagged so, and an OLE buffer is tagged OLE whatever
\* follows.
C5_RequiredTable ==
    tag # "not called" => TagOf[tag] = RequiredTag(buf)

\* C5 without the RIFF and GZIP entries
C5_TableAsCoded ==
    (tag # "not called" /\ RequiredTag(buf) \notin {"RIFF", "GZIP"}) =>
       TagOf[tag] = RequiredTag(buf)

\* ========================================================================
\* Output containment, stated over the behaviours of Spec
\* ========================================================================
\* output_dir / name is a file directly inside output_dir: name is one path
\* component, and neither "." nor ".."
DirectChild(name) ==
    /\ name # <<>>
    /\ name # <<".">>
    /\ name # <<".", ".">>
    /\ \A i \in 1..Len(name) : name[i] # "/"

\* C11: whatever the entry name and the packaged-object label and paths
\* are, path separators and ".." included, every path process_embedding
\* writes is a direct child of the output directory, and so is every file
\* the run adds to it.
C11_Contained ==
    /\ \A k \in 1..Len(log) :
          log[k].wrote # "nothing" => DirectChild(log[k].path)
    /\ \A k \in 1..Len(results) : DirectChild(results[k])
    /\ \A n \in DOMAIN fs : DirectChild(n)

\* the label "../a" was written as "a", and an item was written in the
\* same run whose name could only be made from ".."
C11_Witness ==
    /\ Len(log) = 2
    /\ log[1].wrote = "all" /\ log[2].wrote = "all"
    /\ \E k \in 1..2 :
          /\ ItemOf(k).ole.f.label = <<46, 46, 47, 97>>
          /\ log[k].plan.branch = "package"
          /\ log[k].path = <<"a">>
    /\ \E k \in 1..2 :
          /\ StartsWith(log[k].plan.target, <<".", ".">>)
          /\ log[k].path \in DOMAIN fs

\* the label ".." names the parent directory, which exists: "_1" was added
C11_ParentLabelReached ==
    \E k \in 1..Len(log) :
       /\ log[k].wrote = "all"
       /\ ItemOf(k).ole.f.label = <<46, 46>>
       /\ log[k].plan.target = <<".", ".">>
       /\ log[k].path = <<".", ".", "_", "1">>

\* the entry name "xl/media/../.." was written as "...bin"
C11_ParentEntryReached ==
    \E k \in 1..Len(log) :
       /\ log[k].wrote = "all"
       /\ PathName(log[k].zname) = <<".", ".">>
       /\ log[k].path = <<".", ".", ".", "b", "i", "n">>

====
